---------------------------- MODULE Spec2Model ----------------------------
(***************************************************************************)
(* Connectors of instantsearch.js: the numeric refinement list, the        *)
(* pagination and the breadcrumb connector.                                *)
(*                                                                         *)
(* The search state (SearchParameters of the helper library) is an         *)
(* immutable value; the model keeps the fields the connectors read:        *)
(*   numericRefinements  attribute -> (operator -> non-empty set of        *)
(*                       numbers); an operator without value has no key    *)
(*   page                the current page                                  *)
(*   hierarchicalFacets  the configured hierarchical facets (a sequence),  *)
(*                       or absent                                         *)
(* A JavaScript object with optional properties is a record whose DOMAIN   *)
(* holds the properties that are defined.                                  *)
(***************************************************************************)
EXTENDS Integers, Sequences, FiniteSets, TLC

VARIABLES
    widget,     \* the connector instance the behaviour is about
    phase,      \* "AwaitingFirstResult" until init has run, then "HasResults"
    helper,     \* the helper: its live search state (helper.state)
    payload,    \* what renderFn received last (with isFirstRendering)
    last        \* the operation that ran last and what it did

vars == <<widget, phase, helper, payload, last>>

(***************************************************************************)
(* Bounds of the model.                                                    *)
(***************************************************************************)
\* numeric values of bounds and refinements are 1..MaxVal
MaxVal == 2

Vals == 1..MaxVal

Defined(obj, prop) == prop \in DOMAIN obj

(***************************************************************************)
(* Widget parameters of the numeric refinement list.                       *)
(***************************************************************************)
attributeName == "price"

ResetOption == [name |-> <<"all", 0, 0>>]

LowerOption(v) == [name |-> <<"from", v, 0>>, start |-> v]

UpperOption(v) == [name |-> <<"upto", 0, v>>, end |-> v]

BothOption(s, e) == [name |-> <<"between", s, e>>, start |-> s, end |-> e]

\* every pair (s, e) of values, in row order
AllPairs == [i \in 1..(MaxVal * MaxVal) |->
                BothOption(((i - 1) \div MaxVal) + 1, ((i - 1) % MaxVal) + 1)]

\* The catalog: the reset option, every lower-bounded and upper-bounded
\* option, and every option with both bounds (start = end: a point option,
\* start < end: a range, start > end: an option the toggler rejects).
options ==
    <<ResetOption>> \o [v \in 1..MaxVal |-> LowerOption(v)]
                    \o [v \in 1..MaxVal |-> UpperOption(v)]
                    \o AllPairs

OptionNames == {options[i].name : i \in 1..Len(options)}

\* a name that no option of the catalog has
UnknownName == <<"none", 0, 0>>

Names == OptionNames \cup {UnknownName}

(***************************************************************************)
(* The search state and its immutable-update API.                          *)
(***************************************************************************)
Operators == {"=", ">=", "<="}

\* operator -> non-empty set of values, for the operators that have any
NumericRefinements ==
    UNION {[D -> (SUBSET Vals) \ {{}}] : D \in SUBSET Operators}

NoRefinements == [o \in {} |-> {}]

SearchParameters(num) ==
    [numericRefinements |-> [a \in {attributeName} |-> num],
     page |-> 0]

\* every state snapshot over the values of the model
States == {SearchParameters(num) : num \in NumericRefinements}

getNumericRefinements(state, attribute) == state.numericRefinements[attribute]

isNumericRefined(state, attribute, operator, value) ==
    LET cur == state.numericRefinements[attribute]
    IN  operator \in DOMAIN cur /\ value \in cur[operator]

clearRefinements(state, attribute) ==
    [state EXCEPT !.numericRefinements[attribute] = NoRefinements]

addNumericRefinement(state, attribute, operator, value) ==
    LET cur == state.numericRefinements[attribute]
        old == IF operator \in DOMAIN cur THEN cur[operator] ELSE {}
    IN  IF isNumericRefined(state, attribute, operator, value)
        THEN state
        ELSE [state EXCEPT !.numericRefinements[attribute] =
                [o \in DOMAIN cur \cup {operator} |->
                    IF o = operator THEN old \cup {value} ELSE cur[o]]]

removeNumericRefinement(state, attribute, operator, value) ==
    LET cur == state.numericRefinements[attribute]
        keep == {o \in DOMAIN cur : o # operator \/ cur[o] # {value}}
    IN  IF ~isNumericRefined(state, attribute, operator, value)
        THEN state
        ELSE [state EXCEPT !.numericRefinements[attribute] =
                [o \in keep |->
                    IF o = operator THEN cur[o] \ {value} ELSE cur[o]]]

(***************************************************************************)
(* Shapes of options and the constraints an option stands for.             *)
(***************************************************************************)
IsReset(o) == ~Defined(o, "start") /\ ~Defined(o, "end")

IsPoint(o) == Defined(o, "start") /\ Defined(o, "end") /\ o.start = o.end

IsLower(o) == Defined(o, "start") /\ ~Defined(o, "end")

IsUpper(o) == ~Defined(o, "start") /\ Defined(o, "end")

IsRange(o) == Defined(o, "start") /\ Defined(o, "end") /\ o.start < o.end

IsInverted(o) == Defined(o, "start") /\ Defined(o, "end") /\ o.start > o.end

\* a bounded option the toggler accepts
IsToggle(o) == IsPoint(o) \/ IsLower(o) \/ IsUpper(o) \/ IsRange(o)

Constraints(o) ==
    IF IsPoint(o) THEN [op \in {"="} |-> {o.start}]
    ELSE IF IsLower(o) THEN [op \in {">="} |-> {o.start}]
    ELSE IF IsUpper(o) THEN [op \in {"<="} |-> {o.end}]
    ELSE IF IsRange(o) \/ IsInverted(o)
    THEN [op \in {">=", "<="} |-> IF op = ">=" THEN {o.start} ELSE {o.end}]
    ELSE NoRefinements

\* the snapshots in which at most one option of the catalog is active: the
\* state of the helper at init, the states other actors set and the states
\* the searches were made with are among these
Snapshots ==
    {SearchParameters(NoRefinements)} \cup
    {SearchParameters(Constraints(options[i])) :
        i \in {j \in 1..Len(options) : IsToggle(options[j])}}

(***************************************************************************)
(* lodash find(options, {name: facetValue}): the first option with the     *)
(* name, or undefined.                                                     *)
(***************************************************************************)
undefined == [undefined |-> TRUE]

find_orEmptyObject(opts, facetValue) ==
    LET hits == {i \in 1..Len(opts) : opts[i].name = facetValue}
    IN  IF hits = {} THEN <<>>
        ELSE opts[CHOOSE i \in hits : \A j \in hits : i <= j]

find(opts, facetValue) ==
    LET hits == {i \in 1..Len(opts) : opts[i].name = facetValue}
    IN  IF hits = {} THEN undefined
        ELSE opts[CHOOSE i \in hits : \A j \in hits : i <= j]

(***************************************************************************)
(* RefinementPredicate.                                                    *)
(***************************************************************************)
hasNumericRefinement(currentRefinements, operator, value) ==
    LET hasOperatorRefinements == operator \in DOMAIN currentRefinements
        includesValue == hasOperatorRefinements
                            /\ value \in currentRefinements[operator]
    IN  hasOperatorRefinements /\ includesValue

isRefined_noResetCase(state, attribute, option) ==
    LET currentRefinements == getNumericRefinements(state, attribute)
    IN  IF Defined(option, "start") /\ Defined(option, "end")
           /\ option.start = option.end
        THEN hasNumericRefinement(currentRefinements, "=", option.start)
        ELSE IF Defined(option, "start")
        THEN hasNumericRefinement(currentRefinements, ">=", option.start)
        ELSE IF Defined(option, "end")
        THEN hasNumericRefinement(currentRefinements, "<=", option.end)
        ELSE FALSE

isRefined(state, attribute, option) ==
    LET currentRefinements == getNumericRefinements(state, attribute)
    IN  IF Defined(option, "start") /\ Defined(option, "end")
           /\ option.start = option.end
        THEN hasNumericRefinement(currentRefinements, "=", option.start)
        ELSE IF Defined(option, "start")
        THEN hasNumericRefinement(currentRefinements, ">=", option.start)
        ELSE IF Defined(option, "end")
        THEN hasNumericRefinement(currentRefinements, "<=", option.end)
        ELSE DOMAIN currentRefinements = {}

(***************************************************************************)
(* RefinementToggler.  A call returns a state or throws.                   *)
(***************************************************************************)
Return(v) == [value |-> v]

Throw(e) == [threw |-> e]

Threw(r) == Defined(r, "threw")

\* the bounds refine rejects
startAboveEnd_never(refinedOption) == FALSE

startAboveEnd(refinedOption) ==
    /\ Defined(refinedOption, "start")
    /\ Defined(refinedOption, "end")
    /\ refinedOption.start > refinedOption.end

\* the option with neither bound: every refinement of the attribute goes
resetRefinements_kept(resolvedState, attribute) == resolvedState

resetRefinements(resolvedState, attribute) ==
    clearRefinements(resolvedState, attribute)

toggleOperator_onResolved(resolvedState, currentRefinements, attribute, operator, value) ==
    IF hasNumericRefinement(getNumericRefinements(resolvedState, attribute),
                            operator, value)
    THEN removeNumericRefinement(resolvedState, attribute, operator, value)
    ELSE addNumericRefinement(resolvedState, attribute, operator, value)

toggleOperator_addOnly(resolvedState, currentRefinements, attribute, operator, value) ==
    addNumericRefinement(resolvedState, attribute, operator, value)

\* add the refinement if the incoming refinements lack it, else remove it
toggleOperator(resolvedState, currentRefinements, attribute, operator, value) ==
    IF hasNumericRefinement(currentRefinements, operator, value)
    THEN removeNumericRefinement(resolvedState, attribute, operator, value)
    ELSE addNumericRefinement(resolvedState, attribute, operator, value)

refine(state, attribute, opts, facetValue) ==
    LET refinedOption == find(opts, facetValue)
        currentRefinements == getNumericRefinements(state, attribute)
        hasStart == Defined(refinedOption, "start")
        hasEnd == Defined(refinedOption, "end")
        cleared == IF ~isRefined(state, attribute, refinedOption)
                   THEN clearRefinements(state, attribute)
                   ELSE state
        afterStart == IF hasStart
                      THEN toggleOperator(cleared, currentRefinements,
                                          attribute, ">=", refinedOption.start)
                      ELSE cleared
        afterEnd == IF hasEnd
                    THEN toggleOperator(afterStart, currentRefinements,
                                        attribute, "<=", refinedOption.end)
                    ELSE afterStart
    IN  IF refinedOption = undefined
        THEN Throw("TypeError")   \* reading refinedOption.start of undefined
        ELSE IF ~hasStart /\ ~hasEnd
        THEN Return(resetRefinements(state, attribute))
        ELSE IF startAboveEnd(refinedOption)
        THEN Throw("Error")
        ELSE IF hasStart /\ hasEnd /\ refinedOption.start = refinedOption.end
        THEN Return(toggleOperator(cleared, currentRefinements,
                                   attribute, "=", refinedOption.start))
        ELSE Return(afterEnd)

(***************************************************************************)
(* The toggler and the predicate applied to state snapshots: from any      *)
(* snapshot, refine is applied to a name and its result is the next        *)
(* snapshot; isRefined is applied to an option of the catalog.             *)
(***************************************************************************)
NoPayload == [none |-> TRUE]

\* the toggler and the predicate on their own, without a connector
NoWidget == [connector |-> "none"]

InitRefine ==
    /\ widget = NoWidget
    /\ phase = "AwaitingFirstResult"
    /\ helper \in States
    /\ payload = NoPayload
    /\ last = [op |-> "none"]

ApplyRefine(facetValue) ==
    LET ret == refine(helper, attributeName, options, facetValue)
    IN  /\ widget = NoWidget
        /\ last' = [op |-> "refine", state |-> helper, name |-> facetValue,
                    ret |-> ret]
        /\ helper' = IF Threw(ret) THEN helper ELSE ret.value
        /\ UNCHANGED <<widget, phase, payload>>

ApplyIsRefined(i) ==
    /\ widget = NoWidget
    /\ last' = [op |-> "isRefined", state |-> helper, option |-> options[i],
                ret |-> isRefined(helper, attributeName, options[i])]
    /\ UNCHANGED <<widget, phase, helper, payload>>

NextRefine ==
    \/ \E facetValue \in Names : ApplyRefine(facetValue)
    \/ \E i \in 1..Len(options) : ApplyIsRefined(i)

SpecRefine == InitRefine /\ [][NextRefine]_vars

(***************************************************************************)
(* The connectors.  The framework runs init once, before the first search  *)
(* completes, and render once per completed search after it; each render   *)
(* receives the state and the results of its search.  Between two          *)
(* operations of the widget, other actors may set the helper's state.      *)
(*                                                                         *)
(* last records what an operation did: the calls of renderFn it made       *)
(* (rendered), the calls it made on the helper and on the URL builder, in  *)
(* order (calls), and what it returned or threw (ret).                     *)
(***************************************************************************)
\* results.nbHits is in 0..MaxHits
MaxHits == 1

\* state.page and the page arguments are in 0..MaxPage
MaxPage == 2

\* results.nbPages and widgetParams.maxPages are at most MaxNbPages
MaxNbPages == 2

Did(op, args, rendered, calls, ret) ==
    [op |-> op, args |-> args, rendered |-> rendered, calls |-> calls,
     ret |-> ret]

Call(fn, arg) == [fn |-> fn, arg |-> arg]

setPage(state, page) == [state EXCEPT !.page = page]

\* A value of a hierarchical facet is a path, the sequence of the names of
\* its levels; the refinement of a hierarchical facet is a path, <<>> when
\* the facet is not refined.
getHierarchicalFacetBreadcrumb(state, facetName) ==
    state.hierarchicalFacetsRefinements[facetName]

IsProperPrefix(p, q) == Len(p) < Len(q) /\ SubSeq(q, 1, Len(p)) = p

\* toggling the refined path or one of its ancestors goes up to the parent
\* of the value, toggling any other value refines it
toggleRefinement(state, facetName, value) ==
    LET cur == state.hierarchicalFacetsRefinements[facetName]
        up == cur # <<>> /\ (cur = value \/ IsProperPrefix(value, cur))
    IN  [state EXCEPT !.hierarchicalFacetsRefinements[facetName] =
            IF up THEN SubSeq(value, 1, Len(value) - 1) ELSE value]

\* the state of the helper after one call made on it
HelperCall(call, state) ==
    IF call.fn = "setState" THEN call.arg
    ELSE IF call.fn = "setPage" THEN setPage(state, call.arg)
    ELSE IF call.fn = "toggleRefinement"
    THEN toggleRefinement(state, call.arg[1], call.arg[2])
    ELSE state

RECURSIVE StateAfter(_, _)
\* the state of the helper after the calls made on it, in order
StateAfter(calls, state) ==
    IF calls = <<>> THEN state
    ELSE StateAfter(Tail(calls), HelperCall(Head(calls), state))

NumericWidget ==
    [connector |-> "numericRefinementList",
     widgetParams |-> [attributeName |-> attributeName, options |-> options]]

NumericResults == {[nbHits |-> n] : n \in 0..MaxHits}

\* the options of the widget parameters
widgetOptions == widget.widgetParams.options

facetValuesOf_live(state) ==
    [i \in 1..Len(widgetOptions) |->
        widgetOptions[i] @@
            [isRefined |-> isRefined(helper, attributeName, widgetOptions[i]),
             attributeName |-> attributeName]]

facetValuesOf(state) ==
    [i \in 1..Len(widgetOptions) |->
        widgetOptions[i] @@
            [isRefined |-> isRefined(state, attributeName, widgetOptions[i]),
             attributeName |-> attributeName]]

\* this._createURL(state): the closure keeps the state it was made with
createURLOf_live(state) == [state |-> helper]

createURLOf(state) == [state |-> state]

NumericFirstPayload ==
    [createURL |-> createURLOf(helper),
     facetValues |-> facetValuesOf(helper),
     hasNoResults |-> TRUE,
     isFirstRendering |-> TRUE]

NumericPayload(state, results) ==
    [createURL |-> createURLOf(state),
     facetValues |-> facetValuesOf(state),
     hasNoResults |-> (results.nbHits = 0),
     isFirstRendering |-> FALSE]

InitNumeric ==
    /\ widget = NumericWidget
    /\ phase = "AwaitingFirstResult"
    /\ helper \in Snapshots
    /\ payload = NoPayload
    /\ last = [op |-> "none"]

numericInit ==
    /\ widget.connector = "numericRefinementList"
    /\ phase = "AwaitingFirstResult"
    /\ phase' = "HasResults"
    /\ payload' = NumericFirstPayload
    /\ last' = Did("init", <<>>, 1, <<>>, Return(undefined))
    /\ UNCHANGED <<widget, helper>>

numericRender(state, results) ==
    /\ widget.connector = "numericRefinementList"
    /\ phase = "HasResults"
    /\ payload' = NumericPayload(state, results)
    /\ last' = Did("render", <<state, results>>, 1, <<>>, Return(undefined))
    /\ UNCHANGED <<widget, phase, helper>>

toggleEffects_searchFirst(refinedState) ==
    IF Threw(refinedState) THEN <<>>
    ELSE <<Call("search", undefined), Call("setState", refinedState.value)>>

\* helper.setState(refinedState).search(), unless refine threw
toggleEffects(refinedState) ==
    IF Threw(refinedState) THEN <<>>
    ELSE <<Call("setState", refinedState.value), Call("search", undefined)>>

numericToggleRefinement(facetValue) ==
    LET refinedState ==
            refine(helper, attributeName, widgetOptions, facetValue)
        calls == toggleEffects(refinedState)
    IN  /\ widget.connector = "numericRefinementList"
        /\ phase = "HasResults"
        /\ helper' = StateAfter(calls, helper)
        /\ last' = Did("toggleRefinement", <<facetValue>>, 0, calls,
                       IF Threw(refinedState) THEN refinedState
                       ELSE Return(undefined))
        /\ UNCHANGED <<widget, phase, payload>>

\* the createURL of the payload: createURL(refine(state, ...)) on the URL
\* builder, with the state the payload was built from
numericCreateURL(facetValue) ==
    LET refinedState == refine(payload.createURL.state, attributeName,
                               widgetOptions, facetValue)
    IN  /\ widget.connector = "numericRefinementList"
        /\ phase = "HasResults"
        /\ last' = Did("createURL", <<facetValue>>, 0,
                       IF Threw(refinedState) THEN <<>>
                       ELSE <<Call("createURL", refinedState.value)>>,
                       IF Threw(refinedState) THEN refinedState
                       ELSE Return("url"))
        /\ UNCHANGED <<widget, phase, helper, payload>>

\* another actor sets the state of the helper
numericSetState(state) ==
    /\ widget.connector = "numericRefinementList"
    /\ helper' = state
    /\ last' = [op |-> "setState"]
    /\ UNCHANGED <<widget, phase, payload>>

NextNumeric ==
    \/ numericInit
    \/ \E state \in Snapshots, results \in NumericResults :
            numericRender(state, results)
    \/ \E facetValue \in Names : numericToggleRefinement(facetValue)
    \/ \E facetValue \in Names : numericCreateURL(facetValue)
    \/ \E state \in Snapshots : numericSetState(state)

(***************************************************************************)
(* The pagination connector.                                               *)
(***************************************************************************)
PaginationWidgets ==
    {[connector |-> "pagination", widgetParams |-> <<>>]} \cup
    {[connector |-> "pagination", widgetParams |-> [maxPages |-> m]] :
        m \in 1..MaxNbPages}

PageStates == {setPage(SearchParameters(NoRefinements), p) : p \in 0..MaxPage}

PaginationResults ==
    {[nbHits |-> h, nbPages |-> n] : h \in 0..MaxHits, n \in 0..MaxNbPages}

getPage(state) == state.page

Min(a, b) == IF a <= b THEN a ELSE b

getMaxPage(results) ==
    IF Defined(widget.widgetParams, "maxPages")
    THEN Min(widget.widgetParams.maxPages, results.nbPages)
    ELSE results.nbPages

PaginationFirstPayload_zeroPage ==
    [createURL |-> createURLOf(helper),
     currentPage |-> 0,
     nbHits |-> 0,
     nbPages |-> 0,
     isFirstRendering |-> TRUE]

PaginationFirstPayload ==
    [createURL |-> createURLOf(helper),
     currentPage |-> IF getPage(helper) = 0 THEN 0 ELSE getPage(helper),
     nbHits |-> 0,
     nbPages |-> 0,
     isFirstRendering |-> TRUE]

PaginationPayload(state, results) ==
    [createURL |-> createURLOf(state),
     currentPage |-> state.page,
     nbHits |-> results.nbHits,
     nbPages |-> getMaxPage(results),
     isFirstRendering |-> FALSE]

InitPagination ==
    /\ widget \in PaginationWidgets
    /\ phase = "AwaitingFirstResult"
    /\ helper \in PageStates
    /\ payload = NoPayload
    /\ last = [op |-> "none"]

paginationInit ==
    /\ widget.connector = "pagination"
    /\ phase = "AwaitingFirstResult"
    /\ phase' = "HasResults"
    /\ payload' = PaginationFirstPayload
    /\ last' = Did("init", <<>>, 1, <<>>, Return(undefined))
    /\ UNCHANGED <<widget, helper>>

paginationRender(state, results) ==
    /\ widget.connector = "pagination"
    /\ phase = "HasResults"
    /\ payload' = PaginationPayload(state, results)
    /\ last' = Did("render", <<state, results>>, 1, <<>>, Return(undefined))
    /\ UNCHANGED <<widget, phase, helper>>

\* this.setPage: helper.setPage(page); helper.search()
paginationSetPage(page) ==
    LET calls == <<Call("setPage", page), Call("search", undefined)>>
    IN  /\ widget.connector = "pagination"
        /\ phase = "HasResults"
        /\ helper' = StateAfter(calls, helper)
        /\ last' = Did("setPage", <<page>>, 0, calls, Return(undefined))
        /\ UNCHANGED <<widget, phase, payload>>

\* the createURL of the payload: createURL(state.setPage(page))
paginationCreateURL(page) ==
    /\ widget.connector = "pagination"
    /\ phase = "HasResults"
    /\ last' = Did("createURL", <<page>>, 0,
                   <<Call("createURL", setPage(payload.createURL.state, page))>>,
                   Return("url"))
    /\ UNCHANGED <<widget, phase, helper, payload>>

\* another actor sets the state of the helper
paginationSetState(state) ==
    /\ widget.connector = "pagination"
    /\ helper' = state
    /\ last' = [op |-> "setState"]
    /\ UNCHANGED <<widget, phase, payload>>

NextPagination ==
    \/ paginationInit
    \/ \E state \in PageStates, results \in PaginationResults :
            paginationRender(state, results)
    \/ \E page \in 0..MaxPage : paginationSetPage(page)
    \/ \E page \in 0..MaxPage : paginationCreateURL(page)
    \/ \E state \in PageStates : paginationSetState(state)

(***************************************************************************)
(* The breadcrumb connector.                                               *)
(***************************************************************************)
\* the facet trees of the results have at most MaxDepth levels
MaxDepth == 2

attributes == <<"categories", "subcategories">>

hierarchicalFacetName == attributes[1]

BreadcrumbWidget ==
    [connector |-> "breadcrumb", widgetParams |-> [attributes |-> attributes]]

HierarchicalFacet(name) == [name |-> name]

\* the states that declare the hierarchical facets hf, the facet of the
\* widget refined with path
HierarchicalState(hf, path) ==
    SearchParameters(NoRefinements) @@
    [hierarchicalFacets |-> hf,
     hierarchicalFacetsRefinements |->
        [n \in {hf[i].name : i \in 1..Len(hf)} |->
            IF n = hierarchicalFacetName THEN path ELSE <<>>]]

\* the paths of the values a facet tree of the model holds
Paths ==
    {p \in UNION {[1..n -> {"a", "b"}] : n \in 1..MaxDepth} :
        \A i \in 1..(Len(p) - 1) : p[i] = "a"}

OwnFacetOnly == <<HierarchicalFacet(hierarchicalFacetName)>>

OtherFacetFirst ==
    <<HierarchicalFacet("brands"), HierarchicalFacet(hierarchicalFacetName)>>

\* the states of the helper: the facet of the widget is declared, as
\* getConfiguration asks, alone or after the facet of another widget
BreadcrumbHelperStates ==
    {HierarchicalState(OwnFacetOnly, path) : path \in Paths \cup {<<>>}}
    \cup {HierarchicalState(OtherFacetFirst, <<>>)}

\* the states a render may receive: also a state without hierarchical
\* facets, or with an empty list of them
BreadcrumbStates ==
    BreadcrumbHelperStates
    \cup {SearchParameters(NoRefinements),
          HierarchicalState(<<>>, <<>>)}

RECURSIVE FacetLists(_, _)
\* The lists of facet values at a level: empty, or two siblings "a" and "b"
\* of which one is marked refined; "a" has no data or the list of the next
\* level, whether it is marked refined or not.
FacetLists(prefix, depth) ==
    IF depth > MaxDepth THEN {}
    ELSE {<<>>} \cup
         UNION {
            LET a == [name |-> "a", path |-> Append(prefix, "a"),
                      isRefined |-> r]
                b == [name |-> "b", path |-> Append(prefix, "b"),
                      isRefined |-> ~r]
            IN  {<<a, b>>} \cup
                {<<a @@ [data |-> l], b>> :
                    l \in FacetLists(Append(prefix, "a"), depth + 1)}
            : r \in BOOLEAN}

FacetTree(name, data) ==
    [name |-> name, path |-> <<>>, isRefined |-> TRUE, data |-> data]

FacetTrees(name) == {FacetTree(name, data) : data \in FacetLists(<<>>, 1)}

OtherFacetTrees(name) ==
    {FacetTree(name, <<>>),
     FacetTree(name, <<[name |-> "x", path |-> <<"x">>, isRefined |-> TRUE]>>)}

\* the results of a search made with state: a tree for every hierarchical
\* facet the state declares
BreadcrumbResults(state) ==
    IF ~Defined(state, "hierarchicalFacets") \/ state.hierarchicalFacets = <<>>
    THEN {[facets |-> <<>>]}
    ELSE IF state.hierarchicalFacets = OwnFacetOnly
    THEN {[facets |-> [n \in {hierarchicalFacetName} |-> t]] :
            t \in FacetTrees(hierarchicalFacetName)}
    ELSE {[facets |-> [n \in {"brands", hierarchicalFacetName} |->
                        IF n = "brands" THEN o ELSE t]] :
            t \in FacetTrees(hierarchicalFacetName),
            o \in OtherFacetTrees("brands")}

getFacetValues(results, facetName) == results.facets[facetName]

RECURSIVE prepareList_unpruned(_)
prepareList_unpruned(data) ==
    IF data = <<>> THEN <<>>
    ELSE LET currentItem == Head(data)
         IN  (IF currentItem.isRefined
              THEN <<[name |-> currentItem.name, value |-> currentItem.path]>>
              ELSE <<>>)
             \o (IF Defined(currentItem, "data")
                 THEN prepareList_unpruned(currentItem.data) ELSE <<>>)
             \o prepareList_unpruned(Tail(data))

RECURSIVE prepareList(_)
RECURSIVE prepareItems(_)
\* the reduce of prepareItems over the values of one level
prepareList(data) ==
    IF data = <<>> THEN <<>>
    ELSE LET currentItem == Head(data)
         IN  (IF currentItem.isRefined
              THEN <<[name |-> currentItem.name, value |-> currentItem.path]>>
                   \o (IF Defined(currentItem, "data")
                       THEN prepareItems(currentItem) ELSE <<>>)
              ELSE <<>>)
             \o prepareList(Tail(data))

prepareItems(obj) == prepareList(obj.data)

\* this._createURL and this._refine read the helper when they are called
BoundToHelper == [helper |-> TRUE]

BreadcrumbFirstPayload ==
    [createURL |-> BoundToHelper,
     canRefine |-> FALSE,
     items |-> <<>>,
     isFirstRendering |-> TRUE]

BreadcrumbPayload(state, results) ==
    LET facetName == state.hierarchicalFacets[1].name
        facetsValues == getFacetValues(results, facetName)
        items == prepareItems(facetsValues)
    IN  [canRefine |-> Len(items) > 0,
         createURL |-> BoundToHelper,
         items |-> items,
         isFirstRendering |-> FALSE]

\* the condition render tests before it reads the state
lacksHierarchicalFacets_anyArray(state) ==
    \/ ~Defined(state, "hierarchicalFacets")
    \/ Len(state.hierarchicalFacets) >= 0

lacksHierarchicalFacets(state) ==
    \/ ~Defined(state, "hierarchicalFacets")
    \/ Len(state.hierarchicalFacets) = 0

InitBreadcrumb ==
    /\ widget = BreadcrumbWidget
    /\ phase = "AwaitingFirstResult"
    /\ helper \in BreadcrumbHelperStates
    /\ payload = NoPayload
    /\ last = [op |-> "none"]

breadcrumbInit ==
    /\ widget.connector = "breadcrumb"
    /\ phase = "AwaitingFirstResult"
    /\ phase' = "HasResults"
    /\ payload' = BreadcrumbFirstPayload
    /\ last' = Did("init", <<>>, 1, <<>>, Return(undefined))
    /\ UNCHANGED <<widget, helper>>

breadcrumbRender(state, results) ==
    /\ widget.connector = "breadcrumb"
    /\ phase = "HasResults"
    /\ IF lacksHierarchicalFacets(state)
       THEN /\ last' = Did("render", <<state, results>>, 0, <<>>,
                           Throw("Error"))
            /\ UNCHANGED payload
       ELSE /\ payload' = BreadcrumbPayload(state, results)
            /\ last' = Did("render", <<state, results>>, 1, <<>>,
                           Return(undefined))
    /\ UNCHANGED <<widget, phase, helper>>

\* this._createURL(facetValue); an absent or empty facetValue is <<>>
breadcrumbCreateURL(facetValue) ==
    LET breadcrumb ==
            getHierarchicalFacetBreadcrumb(helper, hierarchicalFacetName)
        target == IF facetValue = <<>> THEN <<breadcrumb[1]>> ELSE facetValue
        noURL == facetValue = <<>> /\ Len(breadcrumb) = 0
    IN  /\ widget.connector = "breadcrumb"
        /\ phase = "HasResults"
        /\ last' = Did("createURL", <<facetValue>>, 0,
                       IF noURL THEN <<>>
                       ELSE <<Call("createURL",
                                   toggleRefinement(helper,
                                        hierarchicalFacetName, target))>>,
                       IF noURL THEN Return(undefined) ELSE Return("url"))
        /\ UNCHANGED <<widget, phase, helper, payload>>

breadcrumbRefine_alwaysSearch(facetValue) ==
    LET breadcrumb ==
            getHierarchicalFacetBreadcrumb(helper, hierarchicalFacetName)
        nothing == facetValue = <<>> /\ Len(breadcrumb) = 0
        target == IF facetValue = <<>> /\ ~nothing THEN <<breadcrumb[1]>>
                  ELSE facetValue
        calls == IF nothing THEN <<Call("search", undefined)>>
                 ELSE <<Call("toggleRefinement",
                             <<hierarchicalFacetName, target>>),
                        Call("search", undefined)>>
    IN  /\ widget.connector = "breadcrumb"
        /\ phase = "HasResults"
        /\ helper' = StateAfter(calls, helper)
        /\ last' = Did("refine", <<facetValue>>, 0, calls, Return(undefined))
        /\ UNCHANGED <<widget, phase, payload>>

\* this._refine(facetValue)
breadcrumbRefine(facetValue) ==
    LET breadcrumb ==
            getHierarchicalFacetBreadcrumb(helper, hierarchicalFacetName)
        target == IF facetValue = <<>> THEN <<breadcrumb[1]>> ELSE facetValue
        nothing == facetValue = <<>> /\ Len(breadcrumb) = 0
        calls == IF nothing THEN <<>>
                 ELSE <<Call("toggleRefinement",
                             <<hierarchicalFacetName, target>>),
                        Call("search", undefined)>>
    IN  /\ widget.connector = "breadcrumb"
        /\ phase = "HasResults"
        /\ helper' = StateAfter(calls, helper)
        /\ last' = Did("refine", <<facetValue>>, 0, calls, Return(undefined))
        /\ UNCHANGED <<widget, phase, payload>>

\* another actor sets the state of the helper
breadcrumbSetState(state) ==
    /\ widget.connector = "breadcrumb"
    /\ helper' = state
    /\ last' = [op |-> "setState"]
    /\ UNCHANGED <<widget, phase, payload>>

NextBreadcrumb ==
    \/ breadcrumbInit
    \/ \E state \in BreadcrumbStates :
        \E results \in BreadcrumbResults(state) :
            breadcrumbRender(state, results)
    \/ \E facetValue \in Paths \cup {<<>>} : breadcrumbCreateURL(facetValue)
    \/ \E facetValue \in Paths \cup {<<>>} : breadcrumbRefine(facetValue)
    \/ \E state \in BreadcrumbHelperStates : breadcrumbSetState(state)

Init == InitNumeric \/ InitPagination \/ InitBreadcrumb

Next == NextNumeric \/ NextPagination \/ NextBreadcrumb

Spec == Init /\ [][Next]_vars

(***************************************************************************)
(* prepareItems applied to facet trees on its own.  The trees are wider    *)
(* than the ones the breadcrumb is rendered with: at every level there are *)
(* no values or two siblings, each marked refined or not, each without     *)
(* data or with the list of the next level.                                *)
(***************************************************************************)
RECURSIVE AnyFacetLists(_, _)
AnyFacetLists(prefix, depth) ==
    IF depth > MaxDepth THEN {}
    ELSE LET Nodes(name) ==
                LET path == Append(prefix, name)
                IN  UNION {
                      {[name |-> name, path |-> path, isRefined |-> r]} \cup
                      {[name |-> name, path |-> path, isRefined |-> r,
                        data |-> l] : l \in AnyFacetLists(path, depth + 1)}
                      : r \in BOOLEAN}
         IN  {<<>>} \cup {<<a, b>> : a \in Nodes("a"), b \in Nodes("b")}

AnyFacetTrees ==
    {FacetTree(hierarchicalFacetName, data) : data \in AnyFacetLists(<<>>, 1)}

InitFlatten ==
    /\ widget = NoWidget
    /\ phase = "AwaitingFirstResult"
    /\ helper = HierarchicalState(OwnFacetOnly, <<>>)
    /\ payload = NoPayload
    /\ \E obj \in AnyFacetTrees : last = [op |-> "none", obj |-> obj]

ApplyPrepareItems ==
    /\ widget = NoWidget
    /\ last.op = "none"
    /\ Defined(last, "obj")
    /\ last' = [op |-> "prepareItems", obj |-> last.obj,
                ret |-> prepareItems(last.obj)]
    /\ UNCHANGED <<widget, phase, helper, payload>>

NextFlatten == ApplyPrepareItems

SpecFlatten == InitFlatten /\ [][NextFlatten]_vars

(***************************************************************************)
(* The numeric list with a catalog of its own.  A catalog is a list of     *)
(* options with distinct names and start <= end; options may share a       *)
(* bound.  The helper starts without refinement, init runs, and the        *)
(* options of the catalog are toggled in any order.                        *)
(***************************************************************************)
\* a catalog has at most MaxOptions options
MaxOptions == 2

ValidOptions ==
    {options[i] : i \in {j \in 1..Len(options) : ~IsInverted(options[j])}}

Catalogs ==
    UNION {{c \in [1..n -> ValidOptions] :
                \A i, j \in 1..n : i # j => c[i].name # c[j].name}
           : n \in 1..MaxOptions}

CatalogWidget(opts) ==
    [connector |-> "numericRefinementList",
     widgetParams |-> [attributeName |-> attributeName, options |-> opts]]

InitCatalog ==
    /\ widget \in {CatalogWidget(opts) : opts \in Catalogs}
    /\ phase = "AwaitingFirstResult"
    /\ helper = SearchParameters(NoRefinements)
    /\ payload = NoPayload
    /\ last = [op |-> "none"]

NextCatalog ==
    \/ numericInit
    \/ \E i \in 1..Len(widgetOptions) :
            numericToggleRefinement(widgetOptions[i].name)

SpecCatalog == InitCatalog /\ [][NextCatalog]_vars

(***************************************************************************)
(* Registration of breadcrumb widgets.  The framework asks every widget    *)
(* it registers for its contribution to the search parameters, with the    *)
(* configuration accumulated so far, and merges the contribution into it.  *)
(***************************************************************************)
null == [null |-> TRUE]

\* the object without property
EmptyObject == <<>>

AttributeLists ==
    {attributes, <<hierarchicalFacetName>>, <<"brands">>}

\* widgetParams of a breadcrumb: attributes, and separator and rootPath or
\* their defaults
BreadcrumbParams ==
    {[attributes |-> a] : a \in AttributeLists} \cup
    {[attributes |-> a, separator |-> " / "] : a \in AttributeLists} \cup
    {[attributes |-> attributes, rootPath |-> "root"]}

separatorOf(widgetParams) ==
    IF Defined(widgetParams, "separator") THEN widgetParams.separator
    ELSE " > "

rootPathOf(widgetParams) ==
    IF Defined(widgetParams, "rootPath") THEN widgetParams.rootPath ELSE null

\* the facet of currentConfiguration that has the name of the widget's
\* facet, undefined when there is none
facetSetOf(widgetParams, currentConfiguration) ==
    IF Defined(currentConfiguration, "hierarchicalFacets")
    THEN find(currentConfiguration.hierarchicalFacets,
              widgetParams.attributes[1])
    ELSE undefined

\* console.warn is called
warns(widgetParams, currentConfiguration) ==
    LET facetSet == facetSetOf(widgetParams, currentConfiguration)
    IN  /\ facetSet # undefined
        /\ \/ facetSet.attributes # widgetParams.attributes
           \/ facetSet.separator # separatorOf(widgetParams)

getConfiguration_always(widgetParams, currentConfiguration) ==
    [hierarchicalFacets |->
        <<[attributes |-> widgetParams.attributes,
           name |-> widgetParams.attributes[1],
           separator |-> separatorOf(widgetParams),
           rootPath |-> rootPathOf(widgetParams)]>>]

getConfiguration(widgetParams, currentConfiguration) ==
    IF facetSetOf(widgetParams, currentConfiguration) # undefined
    THEN EmptyObject
    ELSE [hierarchicalFacets |->
            <<[attributes |-> widgetParams.attributes,
               name |-> widgetParams.attributes[1],
               separator |-> separatorOf(widgetParams),
               rootPath |-> rootPathOf(widgetParams)]>>]

\* the framework merges a contribution into the configuration: the lists of
\* hierarchical facets are concatenated
enhanceConfiguration(configuration, contribution) ==
    IF ~Defined(contribution, "hierarchicalFacets") THEN configuration
    ELSE IF Defined(configuration, "hierarchicalFacets")
    THEN [configuration EXCEPT
            !.hierarchicalFacets = @ \o contribution.hierarchicalFacets]
    ELSE configuration @@ contribution

\* the facet a hierarchical menu on the same attribute has contributed
MenuFacets ==
    {[attributes |-> a, name |-> a[1], separator |-> s, rootPath |-> null] :
        a \in {attributes, <<hierarchicalFacetName>>}, s \in {" > ", " / "}}

\* what is accumulated when the first breadcrumb is registered
FirstConfigurations ==
    {EmptyObject, [hierarchicalFacets |-> <<>>]} \cup
    {[hierarchicalFacets |-> <<f>>] : f \in MenuFacets}

InitConfiguration ==
    /\ widget = NoWidget
    /\ phase = "Registering"
    /\ helper \in FirstConfigurations
    /\ payload = NoPayload
    /\ last = [op |-> "none"]

\* a breadcrumb with widgetParams is registered
registerBreadcrumb(widgetParams) ==
    LET contribution == getConfiguration(widgetParams, helper)
    IN  /\ phase = "Registering"
        /\ widget' = [connector |-> "breadcrumb",
                      widgetParams |-> widgetParams]
        /\ helper' = enhanceConfiguration(helper, contribution)
        /\ last' = [op |-> "getConfiguration",
                    currentConfiguration |-> helper,
                    warned |-> warns(widgetParams, helper),
                    ret |-> Return(contribution)]
        /\ UNCHANGED <<phase, payload>>

NextConfiguration ==
    \E widgetParams \in BreadcrumbParams : registerBreadcrumb(widgetParams)

SpecConfiguration == InitConfiguration /\ [][NextConfiguration]_vars

(***************************************************************************)
(* Reading the results of the toggler and the predicate.                   *)
(***************************************************************************)
Refinements(state) == getNumericRefinements(state, attributeName)

\* the refinements of a hold nothing that b lacks
Within(a, b) ==
    \A op \in DOMAIN a : op \in DOMAIN b /\ a[op] \subseteq b[op]

\* the last step applied refine to a name of the catalog
Refined == last.op = "refine" /\ last.name \in OptionNames

RefinedOption == find(options, last.name)

(***************************************************************************)
(* C1.  Mutual exclusivity: when refine is applied to a bounded option     *)
(* (point, lower-bounded, upper-bounded, range with start < end) that      *)
(* isRefined reports as not refined on the incoming state, the returned    *)
(* state holds exactly the constraints of the option for the attribute.    *)
(***************************************************************************)
C1_MutualExclusivity ==
    (/\ Refined
     /\ IsToggle(RefinedOption)
     /\ ~isRefined(last.state, attributeName, RefinedOption))
    => (/\ ~Threw(last.ret)
        /\ Refinements(last.ret.value) = Constraints(RefinedOption))

\* refine applied once more to the same name, on the state the last step
\* returned, gives back the refinements the last step started from
TwiceRestores ==
    LET again == refine(helper, attributeName, options, last.name)
    IN  /\ ~Threw(last.ret)
        /\ helper = last.ret.value
        /\ ~Threw(again)
        /\ Refinements(again.value) = Refinements(last.state)

(***************************************************************************)
(* C2.  Toggle involution as stated: from every incoming state, also one   *)
(* holding other refinements, refine applied twice to the same bounded     *)
(* option gives back the refinements of the incoming state.                *)
(***************************************************************************)
C2_InvolutionFromAnyState ==
    (Refined /\ IsToggle(RefinedOption)) => TwiceRestores

(***************************************************************************)
(* C2, amended.  From every incoming state that holds no refinement on the *)
(* attribute besides constraints of the option, refine applied twice to    *)
(* the same bounded option gives back the refinements of that state.       *)
(***************************************************************************)
C2_Involution ==
    (/\ Refined
     /\ IsToggle(RefinedOption)
     /\ Within(Refinements(last.state), Constraints(RefinedOption)))
    => TwiceRestores

\* refine applied to a range option on a state that holds both its bounds
C2_Witness ==
    /\ Refined
    /\ IsRange(RefinedOption)
    /\ Refinements(last.state) = Constraints(RefinedOption)
    /\ Refinements(helper) = NoRefinements

(***************************************************************************)
(* C3.  Reset: refine applied to the option with neither bound returns a   *)
(* state without any numeric refinement for the attribute, whatever was    *)
(* active before; applied again it returns the same empty refinements, and *)
(* isRefined holds for the reset option in that state.                     *)
(***************************************************************************)
C3_Reset ==
    (Refined /\ IsReset(RefinedOption))
    => (/\ ~Threw(last.ret)
        /\ Refinements(last.ret.value) = NoRefinements
        /\ LET again == refine(last.ret.value, attributeName, options, last.name)
           IN  ~Threw(again) /\ Refinements(again.value) = NoRefinements
        /\ isRefined(last.ret.value, attributeName, RefinedOption))

\* the reset option applied to a state with all three operators active
C3_Witness ==
    /\ Refined
    /\ IsReset(RefinedOption)
    /\ DOMAIN Refinements(last.state) = Operators
    /\ Refinements(helper) = NoRefinements

(***************************************************************************)
(* C4.  On a state without numeric refinement for the attribute, isRefined *)
(* is true for the option with neither bound and false for every bounded   *)
(* option.                                                                 *)
(***************************************************************************)
C4_IsRefinedOnEmpty ==
    (last.op = "isRefined" /\ Refinements(last.state) = NoRefinements)
    => (last.ret <=> IsReset(last.option))

\* isRefined answered for a range option on a state without refinement
C4_Witness ==
    /\ last.op = "isRefined"
    /\ Refinements(last.state) = NoRefinements
    /\ IsRange(last.option)
    /\ ~last.ret

(***************************************************************************)
(* Reading what the last operation of a connector did.                     *)
(***************************************************************************)
IsNumeric == widget.connector = "numericRefinementList"

IsPagination == widget.connector = "pagination"

IsBreadcrumb == widget.connector = "breadcrumb"

\* the last operation was op, of the connector of this behaviour
Ran(op) == widget.connector # "none" /\ last.op = op

\* the calls the last operation made on the helper
HelperCalls == SelectSeq(last.calls, LAMBDA c : c.fn # "createURL")

\* the last operation took the name of an option with start > end
TookInverted(l) ==
    /\ l.op \in {"toggleRefinement", "createURL"}
    /\ l.args[1] \in OptionNames
    /\ IsInverted(find(options, l.args[1]))

(***************************************************************************)
(* C5.  An option with start > end is never applied: toggleRefinement and  *)
(* createURL called with its name throw, make no call on the helper (no    *)
(* setState, no search) nor on the URL builder, and the step leaves the    *)
(* state of the helper as it was.                                          *)
(***************************************************************************)
C5_InvertedRejected ==
    /\ []((IsNumeric /\ TookInverted(last))
            => (/\ last.ret = Throw("Error")
                /\ last.calls = <<>>
                /\ last.rendered = 0))
    /\ [][(IsNumeric /\ TookInverted(last')) => helper' = helper]_vars

\* toggleRefinement took an option with start > end while the state of the
\* helper held a refinement
C5_Witness ==
    /\ IsNumeric
    /\ last.op = "toggleRefinement"
    /\ TookInverted(last)
    /\ Threw(last.ret)
    /\ Refinements(helper) # NoRefinements

(***************************************************************************)
(* C6.  toggleRefinement called with a name that no option of the catalog  *)
(* has throws (the error of reading a property of the undefined lookup     *)
(* result), makes no call on the helper, and the step leaves the state of  *)
(* the helper as it was.                                                   *)
(***************************************************************************)
C6_UnknownNameRejected ==
    /\ []((IsNumeric /\ Ran("toggleRefinement") /\ last.args[1] \notin OptionNames)
            => (/\ last.ret = Throw("TypeError")
                /\ last.calls = <<>>))
    /\ [][(/\ IsNumeric
           /\ last'.op = "toggleRefinement"
           /\ last'.args[1] \notin OptionNames) => helper' = helper]_vars

\* toggleRefinement took an unknown name while the state of the helper held
\* a refinement
C6_Witness ==
    /\ IsNumeric
    /\ Ran("toggleRefinement")
    /\ last.args[1] = UnknownName
    /\ Threw(last.ret)
    /\ Refinements(helper) # NoRefinements

\* The first payload: init has invoked the render callback once, with
\* isFirstRendering, not before, and with the defaults; p is the currentPage
\* of the pagination.
FirstPayloadDefaults(p) ==
    /\ IsNumeric => payload.hasNoResults
    /\ IsPagination => (/\ payload.nbHits = 0
                        /\ payload.nbPages = 0
                        /\ payload.currentPage = p)
    /\ IsBreadcrumb => (payload.items = <<>> /\ ~payload.canRefine)

FirstRendering(p) ==
    /\ (widget.connector # "none" /\ phase = "AwaitingFirstResult")
            => (payload = NoPayload /\ last.op \notin {"init", "render"})
    /\ Ran("init") => (/\ phase = "HasResults"
                       /\ last.rendered = 1
                       /\ payload.isFirstRendering
                       /\ FirstPayloadDefaults(p))
    /\ Ran("render") => phase = "HasResults"

(***************************************************************************)
(* C7.  init invokes the render callback exactly once, with                *)
(* isFirstRendering = true, and the callback was not invoked before; the   *)
(* first payload has the neutral defaults: hasNoResults for the numeric    *)
(* list, nbHits = 0 and nbPages = 0 for the pagination, no items and       *)
(* canRefine = false for the breadcrumb.                                   *)
(***************************************************************************)
\* C7 as stated: the currentPage of the first payload of the pagination is 0
C7_FirstRenderingZeroPage == FirstRendering(0)

\* C7, amended: the currentPage of the first payload of the pagination is
\* the page of the helper's state at init (0 when it has none)
C7_FirstRendering == FirstRendering(getPage(helper))

\* init of the pagination ran with the helper on a later page
C7_Witness ==
    /\ IsPagination
    /\ Ran("init")
    /\ getPage(helper) > 0
    /\ payload.isFirstRendering

\* the state and the results the last render received
RenderState == last.args[1]

RenderResults == last.args[2]

(***************************************************************************)
(* C8.  A render of the numeric list or of the pagination, and a render of *)
(* the breadcrumb that does not throw, invokes the render callback exactly *)
(* once with isFirstRendering = false, and the payload comes from the      *)
(* state and the results of this call: the numeric list's facetValues hold *)
(* every option of the catalog, in its order, with isRefined as the        *)
(* predicate gives it on the state of the call, and hasNoResults is        *)
(* nbHits = 0 of the results of the call; the pagination's currentPage is  *)
(* the page of the state and nbHits that of the results.                   *)
(***************************************************************************)
C8_RenderFromCurrent ==
    Ran("render") =>
        /\ (IsNumeric \/ IsPagination) => ~Threw(last.ret)
        /\ ~Threw(last.ret) => (last.rendered = 1 /\ ~payload.isFirstRendering)
        /\ IsNumeric =>
            /\ Len(payload.facetValues) = Len(options)
            /\ \A i \in 1..Len(options) :
                /\ \A f \in DOMAIN options[i] :
                        payload.facetValues[i][f] = options[i][f]
                /\ payload.facetValues[i].attributeName = attributeName
                /\ payload.facetValues[i].isRefined
                        = isRefined(RenderState, attributeName, options[i])
            /\ payload.hasNoResults = (RenderResults.nbHits = 0)
        /\ IsPagination =>
            /\ payload.currentPage = RenderState.page
            /\ payload.nbHits = RenderResults.nbHits

\* a render of the numeric list with a state that differs from the state of
\* the helper and from the state of the render before, and with hits
C8_Witness ==
    /\ IsNumeric
    /\ Ran("render")
    /\ RenderState # helper
    /\ Refinements(RenderState) # NoRefinements
    /\ ~payload.hasNoResults

(***************************************************************************)
(* C9.  createURL is made with the state of the call that built the        *)
(* payload (the helper's state at init, the state of the render after),    *)
(* and passes refine of that state (setPage of that state for the          *)
(* pagination) to the URL builder; for the three connectors a call of      *)
(* createURL makes no call on the helper and the step leaves the state of  *)
(* the helper as it was.                                                   *)
(***************************************************************************)
C9_CreateURLPure ==
    /\ []((Ran("init") /\ ~IsBreadcrumb) => payload.createURL.state = helper)
    /\ []((Ran("render") /\ ~IsBreadcrumb)
            => payload.createURL.state = RenderState)
    /\ []((Ran("createURL") /\ IsNumeric) =>
            LET refined == refine(payload.createURL.state, attributeName,
                                  options, last.args[1])
            IN  IF Threw(refined) THEN last.calls = <<>>
                ELSE last.calls = <<Call("createURL", refined.value)>>)
    /\ []((Ran("createURL") /\ IsPagination) =>
            last.calls = <<Call("createURL",
                                setPage(payload.createURL.state, last.args[1]))>>)
    /\ [](Ran("createURL") => (HelperCalls = <<>> /\ last.rendered = 0))
    /\ [][(widget.connector # "none" /\ last'.op = "createURL") => helper' = helper]_vars

\* createURL of the numeric list built a URL from a state that is not the
\* state of the helper
C9_Witness ==
    /\ IsNumeric
    /\ Ran("createURL")
    /\ payload.createURL.state # helper
    /\ ~payload.isFirstRendering
    /\ Len(last.calls) = 1
    /\ last.calls[1].arg # payload.createURL.state

(***************************************************************************)
(* C10.  A render of the breadcrumb with a state whose hierarchicalFacets  *)
(* is absent or empty throws the usage error and does not invoke the       *)
(* render callback (the payload stays what it was); with a non-empty       *)
(* hierarchicalFacets it invokes the callback exactly once.                *)
(***************************************************************************)
C10_BreadcrumbRender ==
    /\ []((IsBreadcrumb /\ Ran("render")) =>
            IF \/ ~Defined(RenderState, "hierarchicalFacets")
               \/ RenderState.hierarchicalFacets = <<>>
            THEN last.ret = Throw("Error") /\ last.rendered = 0
            ELSE ~Threw(last.ret) /\ last.rendered = 1
                    /\ ~payload.isFirstRendering)
    /\ [][(/\ IsBreadcrumb
           /\ last'.op = "render"
           /\ Threw(last'.ret)) => payload' = payload]_vars

\* a render threw on a state with an empty list after a render that showed
\* items
C10_Witness ==
    /\ IsBreadcrumb
    /\ Ran("render")
    /\ Threw(last.ret)
    /\ Defined(RenderState, "hierarchicalFacets")
    /\ ~payload.isFirstRendering
    /\ payload.canRefine

(***************************************************************************)
(* Reading a facet tree by positions: a position is the sequence of the    *)
(* indexes that lead from the root to a value.                             *)
(***************************************************************************)
Positions == UNION {[1..n -> 1..2] : n \in 1..MaxDepth}

RECURSIVE NodeAt(_, _)
\* the value at a position under obj, undefined when there is none
NodeAt(obj, pos) ==
    IF pos = <<>> THEN obj
    ELSE IF ~Defined(obj, "data") THEN undefined
    ELSE IF Head(pos) > Len(obj.data) THEN undefined
    ELSE NodeAt(obj.data[Head(pos)], Tail(pos))

\* the value at pos exists, is marked refined, and so is every value above
\* it below the root
Shown(obj, pos) ==
    \A n \in 1..Len(pos) :
        LET node == NodeAt(obj, SubSeq(pos, 1, n))
        IN  node # undefined /\ node.isRefined

ShownPositions(obj) == {pos \in Positions : Shown(obj, pos)}

\* p comes before q in a depth-first walk that visits a value before its
\* children and siblings in their order
Before(p, q) ==
    \/ IsProperPrefix(p, q)
    \/ \E i \in 1..Min(Len(p), Len(q)) :
        /\ p[i] < q[i]
        /\ \A j \in 1..(i - 1) : p[j] = q[j]

\* items is the list of the shown values of obj in depth-first order, each
\* as its name and its path
FlattenedFrom(items, obj) ==
    /\ Len(items) = Cardinality(ShownPositions(obj))
    /\ \A pos \in ShownPositions(obj) :
        LET k == 1 + Cardinality({q \in ShownPositions(obj) : Before(q, pos)})
            node == NodeAt(obj, pos)
        IN  items[k] = [name |-> node.name, value |-> node.path]

(***************************************************************************)
(* C11.  prepareItems applied to a facet tree returns exactly the values   *)
(* that are marked refined and whose ancestors below the root are all      *)
(* marked refined, each as {name, value: path}, a value before its         *)
(* children and siblings in their order; the children of a value that is   *)
(* not marked refined never appear; a tree without a refined top-level     *)
(* value gives the empty sequence and no error.                            *)
(***************************************************************************)
C11_PrepareItems ==
    last.op = "prepareItems" =>
        /\ FlattenedFrom(last.ret, last.obj)
        /\ (\A i \in 1..Len(last.obj.data) : ~last.obj.data[i].isRefined)
                => last.ret = <<>>

\* the first top-level value is not marked refined and has a refined child,
\* the second is marked refined and so are its two children: the list is the
\* second value, then its children in their order
C11_Witness ==
    /\ last.op = "prepareItems"
    /\ last.obj.data # <<>>
    /\ ~last.obj.data[1].isRefined
    /\ Defined(last.obj.data[1], "data")
    /\ last.obj.data[1].data # <<>>
    /\ last.obj.data[1].data[1].isRefined
    /\ last.ret = <<[name |-> "b", value |-> <<"b">>],
                    [name |-> "a", value |-> <<"b", "a">>],
                    [name |-> "b", value |-> <<"b", "b">>]>>

(***************************************************************************)
(* C12.  A toggleRefinement(name) of the numeric list that does not throw  *)
(* sets the state of the helper to refine(L, attributeName, options, name),*)
(* L being the state the helper holds when the call is made, and then      *)
(* triggers one search; setPage(p) of the pagination sets the page of the  *)
(* helper to p and then triggers one search.  In both the state is set     *)
(* before the search.                                                      *)
(***************************************************************************)
C12_SetThenSearch ==
    [][/\ (IsNumeric /\ last'.op = "toggleRefinement" /\ ~Threw(last'.ret)) =>
            LET refinedState ==
                    refine(helper, attributeName, options, last'.args[1])
            IN  /\ last'.calls = <<Call("setState", refinedState.value),
                                   Call("search", undefined)>>
                /\ helper' = refinedState.value
       /\ (IsPagination /\ last'.op = "setPage") =>
            /\ last'.calls = <<Call("setPage", last'.args[1]),
                               Call("search", undefined)>>
            /\ getPage(helper') = last'.args[1]
            /\ ~Threw(last'.ret)]_vars

\* a toggle of the numeric list went through on a helper whose state was
\* not the state of the last rendering, and gave another state than the
\* rendered one would have given
C12_Witness ==
    /\ IsNumeric
    /\ Ran("toggleRefinement")
    /\ ~Threw(last.ret)
    /\ ~payload.isFirstRendering
    /\ Len(last.calls) = 2
    /\ last.calls[1].arg #
            refine(payload.createURL.state, attributeName, options,
                   last.args[1]).value
    /\ helper = last.calls[1].arg

(***************************************************************************)
(* C13.  With a catalog of distinct names and start <= end in every        *)
(* option, from a helper without refinement and after any sequence of      *)
(* toggleRefinement calls, the numeric refinements of the attribute are    *)
(* empty or exactly the constraints of one option of the catalog.          *)
(***************************************************************************)
C13_OneOptionActive ==
    IsNumeric =>
        \/ Refinements(helper) = NoRefinements
        \/ \E i \in 1..Len(widgetOptions) :
            Refinements(helper) = Constraints(widgetOptions[i])

\* the refinements hold the constraint operator value
Holds(refinements, operator, value) ==
    operator \in DOMAIN refinements /\ value \in refinements[operator]

(***************************************************************************)
(* C14.  For every state S and every option with start < end, refine       *)
(* returns a state in which '>=' start is present exactly when it was      *)
(* absent in S and '<=' end is present exactly when it was absent in S;    *)
(* both bounds are updated by the one call.                                *)
(***************************************************************************)
C14_RangeBoundsToggled ==
    (Refined /\ IsRange(RefinedOption)) =>
        /\ ~Threw(last.ret)
        /\ Holds(Refinements(last.ret.value), ">=", RefinedOption.start)
            <=> ~Holds(Refinements(last.state), ">=", RefinedOption.start)
        /\ Holds(Refinements(last.ret.value), "<=", RefinedOption.end)
            <=> ~Holds(Refinements(last.state), "<=", RefinedOption.end)

\* refine of a range on a state that held its end bound and not its start
\* bound: the start bound was added and the end bound removed
C14_Witness ==
    /\ Refined
    /\ IsRange(RefinedOption)
    /\ ~Holds(Refinements(last.state), ">=", RefinedOption.start)
    /\ Holds(Refinements(last.state), "<=", RefinedOption.end)
    /\ Holds(Refinements(last.ret.value), ">=", RefinedOption.start)
    /\ ~Holds(Refinements(last.ret.value), "<=", RefinedOption.end)

\* the hierarchical facets of a configuration
FacetsOf(configuration) ==
    IF Defined(configuration, "hierarchicalFacets")
    THEN configuration.hierarchicalFacets ELSE <<>>

HasFacetNamed(configuration, name) ==
    \E i \in 1..Len(FacetsOf(configuration)) :
        FacetsOf(configuration)[i].name = name

(***************************************************************************)
(* C15.  getConfiguration returns an empty contribution when the           *)
(* accumulated configuration already holds a hierarchical facet named      *)
(* attributes[0], with a warning and nothing else when its attributes or   *)
(* its separator differ; otherwise it contributes exactly the facet        *)
(* {attributes, name: attributes[0], separator, rootPath}.  After any      *)
(* sequence of registrations no two hierarchical facets of the             *)
(* accumulated configuration have the same name, and getConfiguration      *)
(* never raises.                                                           *)
(***************************************************************************)
C15_GetConfiguration ==
    /\ last.op = "getConfiguration" =>
        LET params == widget.widgetParams
            name == params.attributes[1]
            own == [attributes |-> params.attributes,
                    name |-> name,
                    separator |-> IF Defined(params, "separator")
                                  THEN params.separator ELSE " > ",
                    rootPath |-> IF Defined(params, "rootPath")
                                 THEN params.rootPath ELSE null]
            facets == FacetsOf(last.currentConfiguration)
        IN  /\ ~Threw(last.ret)
            /\ IF HasFacetNamed(last.currentConfiguration, name)
               THEN /\ last.ret.value = EmptyObject
                    /\ helper = last.currentConfiguration
                    /\ last.warned <=>
                        \E i \in 1..Len(facets) :
                            /\ facets[i].name = name
                            /\ \/ facets[i].attributes # own.attributes
                               \/ facets[i].separator # own.separator
               ELSE /\ last.ret.value = [hierarchicalFacets |-> <<own>>]
                    /\ ~last.warned
    /\ \A i, j \in 1..Len(FacetsOf(helper)) :
        i # j => FacetsOf(helper)[i].name # FacetsOf(helper)[j].name

\* a breadcrumb was registered after a widget with the same facet and
\* another separator: it contributed nothing and a warning was given, and
\* the configuration holds this facet and another one
C15_Witness ==
    /\ last.op = "getConfiguration"
    /\ last.warned
    /\ last.ret.value = EmptyObject
    /\ Len(FacetsOf(helper)) = 2
    /\ HasFacetNamed(helper, widget.widgetParams.attributes[1])

(***************************************************************************)
(* C16.  In every payload of the numeric list, an option is flagged        *)
(* isRefined only if the state the payload was built from holds all the    *)
(* constraints of the option: for a range {start, end} with start < end,   *)
(* both '>=' start and '<=' end.                                           *)
(***************************************************************************)
C16_RefinedHoldsAll ==
    (IsNumeric /\ payload # NoPayload) =>
        \A i \in 1..Len(payload.facetValues) :
            LET facetValue == payload.facetValues[i]
            IN  (facetValue.isRefined /\ ~IsInverted(facetValue)) =>
                    \A operator \in DOMAIN Constraints(widgetOptions[i]) :
                        \A value \in Constraints(widgetOptions[i])[operator] :
                            Holds(Refinements(payload.createURL.state),
                                  operator, value)

\* the searches among the helper calls of the last operation
Searches == SelectSeq(last.calls, LAMBDA c : c.fn = "search")

(***************************************************************************)
(* C17.  refine and createURL of the breadcrumb agree: for every argument, *)
(* the absent or empty one included, and every state of the helper, the    *)
(* state createURL(v) passes to the URL builder is the state of the helper *)
(* after refine(v); refine(v) triggers a search exactly when createURL(v)  *)
(* gives a URL.  The two are compared on a createURL(v) followed by        *)
(* refine(v), which are made on the same state of the helper.              *)
(***************************************************************************)
C17_RefineAgreesWithURL ==
    [][(/\ IsBreadcrumb
        /\ last.op = "createURL"
        /\ last'.op = "refine"
        /\ last'.args = last.args) =>
            IF last.calls = <<>>
            THEN /\ last.ret = Return(undefined)
                 /\ last'.calls = <<>>
                 /\ helper' = helper
            ELSE /\ last.ret = Return("url")
                 /\ last.calls = <<Call("createURL", helper')>>
                 /\ Len(SelectSeq(last'.calls,
                                  LAMBDA c : c.fn = "search")) = 1]_vars

\* refine without argument went up from a refined path: the helper was
\* toggled and one search was triggered
C17_Witness ==
    /\ IsBreadcrumb
    /\ Ran("refine")
    /\ last.args = <<<<>>>>
    /\ Len(Searches) = 1
    /\ last.calls[1].fn = "toggleRefinement"
    /\ getHierarchicalFacetBreadcrumb(helper, hierarchicalFacetName) = <<>>

(***************************************************************************)
(* C18.  The items of every payload a render of the breadcrumb gives are   *)
(* the flattened facet values of the widget's own hierarchical facet, the  *)
(* one named attributes[0], also when this facet is not the first          *)
(* hierarchical facet of the state; canRefine is true exactly when there   *)
(* are items.                                                              *)
(***************************************************************************)
C18_ItemsOfOwnFacet ==
    (IsBreadcrumb /\ Ran("render") /\ ~Threw(last.ret)) =>
        /\ FlattenedFrom(payload.items,
                         getFacetValues(RenderResults,
                                        widget.widgetParams.attributes[1]))
        /\ payload.canRefine <=> payload.items # <<>>

(***************************************************************************)
(* C19.  In every payload a render of the pagination gives, nbPages is     *)
(* min(maxPages, results.nbPages) when maxPages is configured and          *)
(* results.nbPages otherwise, and the page shown lies within it:           *)
(* currentPage < nbPages whenever nbPages > 0, after any sequence of       *)
(* setPage calls and searches.                                             *)
(***************************************************************************)
C19_PageWithinBounds ==
    (IsPagination /\ Ran("render")) =>
        /\ payload.nbPages =
                IF Defined(widget.widgetParams, "maxPages")
                THEN Min(widget.widgetParams.maxPages, RenderResults.nbPages)
                ELSE RenderResults.nbPages
        /\ payload.nbPages > 0 => payload.currentPage < payload.nbPages

=============================================================================
